---- MODULE Spec2Model ----
(***************************************************************************)
(* sjtu::linked_hashmap<Key, T, Hash, Equal> (src/linked_hashmap.hpp).     *)
(*                                                                         *)
(* The model keeps the pointer graph of the implementation: a heap of      *)
(* Node objects addressed by node ids, and per container the fields head,  *)
(* tail, buckets, bucket_count and element_count.  Every member function   *)
(* is translated statement by statement onto that heap.  Two container     *)
(* objects (slots 1 and 2) and one cursor (an iterator object held by the  *)
(* caller) are modelled.  Keys are non-negative ints, Hash is              *)
(* std::hash<int> (the identity) and Equal is std::equal_to<int>.          *)
(***************************************************************************)
EXTENDS Integers, Sequences, FiniteSets, TLC

VARIABLES
    heap,    \* node id -> Node object (or a freed cell)
    maps,    \* container slot -> linked_hashmap object
    it,      \* the caller's cursor: [node, map] plus the ghost flag stale
    last,    \* the latest call and what it returned or threw
    order,   \* ghost: per container, the keys in order of successful insertion
    ub,      \* ghost: the run has executed undefined behaviour
    nops     \* number of calls made so far

vars == <<heap, maps, it, last, order, ub, nops>>

---------------------------------------------------------------------------
(* Bounds of the model *)

MaxNodes == 30          \* size of the heap (Node cells)
MaxOps == 2             \* calls per run

(* Program constants *)

INITIAL_BUCKET_COUNT == 16
LoadFactorNum == 3      \* LOAD_FACTOR = 0.75 = LoadFactorNum / LoadFactorDen
LoadFactorDen == 4
SIZE_MAX == -1          \* stands for 2^64 - 1 (size_t wraps to it below 0)

Null == 0
NodeIds == 1..MaxNodes
Maps == {1, 2}

(* Keys and values the calls are made with.  1, 17, 33 and 49 share bucket  *)
(* 1 of a 16-bucket table; in a 32-bucket table 1 and 33 stay in bucket 1   *)
(* and 17 and 49 move to bucket 17.                                         *)
InputKeys == {1, 17, 33}
Values == {0, 1}
DefaultValue == 0       \* T() for T = int
PrefillKeys == <<1, 33, 2, 3, 4, 5, 6, 7, 8, 9, 10, 49>>
PrefillSizes == {0, 3, 12}
CursorKey == PrefillKeys[2]

Hash(k) == k

---------------------------------------------------------------------------
(* The heap *)

\* a cell holding no Node; freed > 0 orders the allocator's free list
FreeCell == [alloc |-> FALSE, data |-> FALSE, key |-> 0, val |-> 0,
             next_in_bucket |-> Null, prev |-> Null, next |-> Null, freed |-> 0]

\* Node(): data(nullptr), next_in_bucket(nullptr), prev(nullptr), next(nullptr)
NodeDefault == [alloc |-> TRUE, data |-> FALSE, key |-> 0, val |-> 0,
                next_in_bucket |-> Null, prev |-> Null, next |-> Null, freed |-> 0]

\* Node(const value_type &val): data = new value_type(val), links null
NodeOf(k, v) == [alloc |-> TRUE, data |-> TRUE, key |-> k, val |-> v,
                 next_in_bucket |-> Null, prev |-> Null, next |-> Null, freed |-> 0]

FreeIds(h) == {n \in NodeIds : ~h[n].alloc}

Recycled(h) == {n \in NodeIds : h[n].freed > 0}

\* operator new: the allocator hands out the most recently deleted cell
\* (a LIFO free list), and the lowest unused cell when none was deleted
New(h) ==
    IF Recycled(h) # {}
    THEN CHOOSE n \in Recycled(h) : \A o \in Recycled(h) : h[n].freed >= h[o].freed
    ELSE CHOOSE n \in FreeIds(h) : \A o \in FreeIds(h) : n <= o

LastFreed(h) ==
    IF Recycled(h) = {} THEN 0
    ELSE h[CHOOSE n \in Recycled(h) : \A o \in Recycled(h) : h[n].freed >= h[o].freed].freed

\* delete node
Delete(h, n) == [h EXCEPT ![n] = [FreeCell EXCEPT !.freed = LastFreed(h) + 1]]

\* a container slot holding no object.  The ghost field arrays counts the
\* Node*[] arrays the object has obtained from new[] and not yet given to
\* delete[].
DeadMap == [alive |-> FALSE, head |-> Null, tail |-> Null, buckets |-> <<>>,
            bucket_count |-> 0, element_count |-> 0, arrays |-> 0]

---------------------------------------------------------------------------
(* Private member functions.  h is the heap, mp the container object.      *)

\* head = new Node(); tail = new Node(); head->next = tail; tail->prev = head
init_sentinels(h, mp) ==
    LET hd == New(h)
        h1 == [h EXCEPT ![hd] = NodeDefault]
        tl == New(h1)
        h2 == [h1 EXCEPT ![tl] = NodeDefault]
        h3 == [h2 EXCEPT ![hd].next = tl, ![tl].prev = hd]
    IN  [h |-> h3, mp |-> [mp EXCEPT !.head = hd, !.tail = tl]]

\* bucket_count = count; buckets = new Node*[bucket_count], all nullptr
init_buckets(mp, count) ==
    [mp EXCEPT !.bucket_count = count,
               !.buckets = [i \in 0..(count - 1) |-> Null],
               !.arrays = @ + 1]

\* delete[] buckets
delete_buckets(mp) == [mp EXCEPT !.arrays = @ - 1]

get_bucket_index(mp, key) == Hash(key) % mp.bucket_count

RECURSIVE ChainFind(_, _, _)
ChainFind(h, node, key) ==
    IF node = Null THEN Null
    ELSE IF h[node].key = key THEN node
    ELSE ChainFind(h, h[node].next_in_bucket, key)

\* faulty variant: only the first node of the chain is compared
find_in_bucket_first_only(h, mp, key, bucket_idx) ==
    LET node == mp.buckets[bucket_idx]
    IN  IF node # Null /\ h[node].key = key THEN node ELSE Null

find_in_bucket(h, mp, key, bucket_idx) ==
    ChainFind(h, mp.buckets[bucket_idx], key)

\* the while loop of rehash: push every node of the order list onto the
\* front of its new chain
RECURSIVE RehashLoop(_, _, _, _, _)
RehashLoop(h, nb, node, tail, nbc) ==
    IF node = tail THEN [h |-> h, buckets |-> nb]
    ELSE LET new_idx == Hash(h[node].key) % nbc
         IN  RehashLoop([h EXCEPT ![node].next_in_bucket = nb[new_idx]],
                        [nb EXCEPT ![new_idx] = node],
                        h[node].next, tail, nbc)

\* faulty variant: the nodes are filed under their old bucket index
rehash_keeping_index(h, mp, new_bucket_count) ==
    LET r == RehashLoop(h, [i \in 0..(new_bucket_count - 1) |-> Null],
                        h[mp.head].next, mp.tail, mp.bucket_count)
        mp1 == delete_buckets([mp EXCEPT !.arrays = @ + 1])
    IN  [h |-> r.h,
         mp |-> [mp1 EXCEPT !.buckets = r.buckets,
                            !.bucket_count = new_bucket_count]]

\* new_buckets = new Node*[new_bucket_count]; the loop; delete[] buckets;
\* buckets = new_buckets; bucket_count = new_bucket_count
rehash(h, mp, new_bucket_count) ==
    LET r == RehashLoop(h, [i \in 0..(new_bucket_count - 1) |-> Null],
                        h[mp.head].next, mp.tail, new_bucket_count)
        mp1 == delete_buckets([mp EXCEPT !.arrays = @ + 1])
    IN  [h |-> r.h,
         mp |-> [mp1 EXCEPT !.buckets = r.buckets,
                            !.bucket_count = new_bucket_count]]

\* faulty variant: pos->prev = node is forgotten
insert_to_order_list_no_backlink(h, node, pos) ==
    LET p == h[pos].prev
        h1 == [h EXCEPT ![node].prev = p, ![node].next = pos]
    IN  [h1 EXCEPT ![p].next = node]

insert_to_order_list(h, node, pos) ==
    LET p == h[pos].prev
        h1 == [h EXCEPT ![node].prev = p, ![node].next = pos]
        h2 == [h1 EXCEPT ![p].next = node]
    IN  [h2 EXCEPT ![pos].prev = node]

\* faulty variant: node->next->prev = node->prev is forgotten
remove_from_order_list_forward_only(h, node) ==
    [h EXCEPT ![h[node].prev].next = h[node].next]

remove_from_order_list(h, node) ==
    LET h1 == [h EXCEPT ![h[node].prev].next = h[node].next]
    IN  [h1 EXCEPT ![h1[node].next].prev = h1[node].prev]

\* faulty variant: the check is made on the count before the insertion
NeedsRehashLate(mp) ==
    mp.element_count * LoadFactorDen > mp.bucket_count * LoadFactorNum

\* element_count + 1 > bucket_count * LOAD_FACTOR
NeedsRehash(mp) ==
    (mp.element_count + 1) * LoadFactorDen > mp.bucket_count * LoadFactorNum

GrownBucketCount(mp) == mp.bucket_count * 2

\* faulty variant: the growth check is made before the lookup
insert_rehash_first(h, mp, k, v) ==
    LET g == IF NeedsRehash(mp) THEN rehash(h, mp, GrownBucketCount(mp))
             ELSE [h |-> h, mp |-> mp]
        idx == get_bucket_index(g.mp, k)
        existing == find_in_bucket(g.h, g.mp, k, idx)
    IN  IF existing # Null
        THEN [h |-> g.h, mp |-> g.mp, node |-> existing, flag |-> FALSE]
        ELSE
          LET new_node == New(g.h)
              h1 == [g.h EXCEPT ![new_node] =
                        [NodeOf(k, v) EXCEPT !.next_in_bucket = g.mp.buckets[idx]]]
              mp1 == [g.mp EXCEPT !.buckets[idx] = new_node]
              h2 == insert_to_order_list(h1, new_node, mp1.tail)
              mp2 == [mp1 EXCEPT !.element_count = @ + 1]
          IN  [h |-> h2, mp |-> mp2, node |-> new_node, flag |-> TRUE]

\* faulty variant: idx is not recomputed after the rehash
insert_stale_idx(h, mp, k, v) ==
    LET idx == get_bucket_index(mp, k)
        existing == find_in_bucket(h, mp, k, idx)
    IN  IF existing # Null
        THEN [h |-> h, mp |-> mp, node |-> existing, flag |-> FALSE]
        ELSE
          LET g == IF NeedsRehash(mp) THEN rehash(h, mp, GrownBucketCount(mp))
                   ELSE [h |-> h, mp |-> mp]
              new_node == New(g.h)
              h1 == [g.h EXCEPT ![new_node] =
                        [NodeOf(k, v) EXCEPT !.next_in_bucket = g.mp.buckets[idx]]]
              mp1 == [g.mp EXCEPT !.buckets[idx] = new_node]
              h2 == insert_to_order_list(h1, new_node, mp1.tail)
              mp2 == [mp1 EXCEPT !.element_count = @ + 1]
          IN  [h |-> h2, mp |-> mp2, node |-> new_node, flag |-> TRUE]

\* linked_hashmap::insert: [h, mp, node, flag]
insert(h, mp, k, v) ==
    LET idx0 == get_bucket_index(mp, k)
        existing == find_in_bucket(h, mp, k, idx0)
    IN  IF existing # Null
        THEN [h |-> h, mp |-> mp, node |-> existing, flag |-> FALSE]
        ELSE
          LET g == IF NeedsRehash(mp) THEN rehash(h, mp, GrownBucketCount(mp))
                   ELSE [h |-> h, mp |-> mp]
              idx == get_bucket_index(g.mp, k)
              new_node == New(g.h)
              h1 == [g.h EXCEPT ![new_node] =
                        [NodeOf(k, v) EXCEPT !.next_in_bucket = g.mp.buckets[idx]]]
              mp1 == [g.mp EXCEPT !.buckets[idx] = new_node]
              h2 == insert_to_order_list(h1, new_node, mp1.tail)
              mp2 == [mp1 EXCEPT !.element_count = @ + 1]
          IN  [h |-> h2, mp |-> mp2, node |-> new_node, flag |-> TRUE]

\* the loop of clear_all / clear: delete every node from node up to tail
RECURSIVE DeleteLoop(_, _, _)
DeleteLoop(h, node, tail) ==
    IF node = tail THEN h
    ELSE DeleteLoop(Delete(h, node), h[node].next, tail)

\* faulty variant: delete tail is forgotten
clear_all_keeping_tail(h, mp) ==
    Delete(DeleteLoop(h, h[mp.head].next, mp.tail), mp.head)

\* clear_all: the nodes, then head and tail; its last statement,
\* delete[] buckets, is delete_buckets applied by the callers
clear_all(h, mp) ==
    Delete(Delete(DeleteLoop(h, h[mp.head].next, mp.tail), mp.head), mp.tail)

\* the loop of deep_copy: insert(*node->data) for every node of other
RECURSIVE DeepCopyLoop(_, _, _, _)
DeepCopyLoop(h, mp, node, otail) ==
    IF node = otail THEN [h |-> h, mp |-> mp]
    ELSE LET r == insert(h, mp, h[node].key, h[node].val)
         IN  DeepCopyLoop(r.h, r.mp, h[node].next, otail)

\* faulty variant: the pointers of other are copied, not what they point to
deep_copy_sharing(h, mp, other) ==
    [h |-> h,
     mp |-> [mp EXCEPT !.head = other.head, !.tail = other.tail,
                       !.buckets = other.buckets,
                       !.bucket_count = other.bucket_count,
                       !.element_count = other.element_count]]

\* faulty variant: element_count = 0 is forgotten
deep_copy_keeping_count(h, mp, other) ==
    LET s == init_sentinels(h, mp)
        b == init_buckets(s.mp, other.bucket_count)
    IN  DeepCopyLoop(s.h, b, s.h[other.head].next, other.tail)

deep_copy(h, mp, other) ==
    LET s == init_sentinels(h, mp)
        b == [init_buckets(s.mp, other.bucket_count) EXCEPT !.element_count = 0]
    IN  DeepCopyLoop(s.h, b, s.h[other.head].next, other.tail)

\* T & at(const Key &): [exc, node]
at(h, mp, key) ==
    LET node == find_in_bucket(h, mp, key, get_bucket_index(mp, key))
    IN  IF node = Null THEN [exc |-> "index_out_of_bound", node |-> Null]
        ELSE [exc |-> "none", node |-> node]

\* const T & operator[](const Key &) const: return at(key)
const_subscript(h, mp, key) == at(h, mp, key)

\* faulty variant: a present key gets the default value again
subscript_resetting(h, mp, key) ==
    LET node == find_in_bucket(h, mp, key, get_bucket_index(mp, key))
    IN  IF node # Null
        THEN [h |-> [h EXCEPT ![node].val = DefaultValue], mp |-> mp,
              node |-> node, flag |-> FALSE]
        ELSE insert(h, mp, key, DefaultValue)

\* T & operator[](const Key &): [h, mp, node, flag]
subscript(h, mp, key) ==
    LET node == find_in_bucket(h, mp, key, get_bucket_index(mp, key))
    IN  IF node # Null
        THEN [h |-> h, mp |-> mp, node |-> node, flag |-> FALSE]
        ELSE insert(h, mp, key, DefaultValue)

\* faulty variant: a non-empty bucket counts as a hit
count_bucket_nonempty(h, mp, key) ==
    IF mp.buckets[get_bucket_index(mp, key)] # Null THEN 1 ELSE 0

count(h, mp, key) ==
    IF find_in_bucket(h, mp, key, get_bucket_index(mp, key)) # Null THEN 1 ELSE 0

\* find: the node of the returned iterator (end() is tail)
find(h, mp, key) ==
    LET node == find_in_bucket(h, mp, key, get_bucket_index(mp, key))
    IN  IF node # Null THEN node ELSE mp.tail

begin(h, mp) == h[mp.head].next
end(mp) == mp.tail

\* faulty variant: clear() goes back to the initial bucket array
clear_shrinking(h, mp) ==
    LET h1 == DeleteLoop(h, h[mp.head].next, mp.tail)
        h2 == [h1 EXCEPT ![mp.head].next = mp.tail, ![mp.tail].prev = mp.head]
    IN  [h |-> h2,
         mp |-> [init_buckets(mp, INITIAL_BUCKET_COUNT) EXCEPT !.element_count = 0]]

\* faulty variant: the buckets are not reset
clear_keeping_buckets(h, mp) ==
    LET h1 == DeleteLoop(h, h[mp.head].next, mp.tail)
        h2 == [h1 EXCEPT ![mp.head].next = mp.tail, ![mp.tail].prev = mp.head]
    IN  [h |-> h2, mp |-> [mp EXCEPT !.element_count = 0]]

clear(h, mp) ==
    LET h1 == DeleteLoop(h, h[mp.head].next, mp.tail)
        h2 == [h1 EXCEPT ![mp.head].next = mp.tail, ![mp.tail].prev = mp.head]
    IN  [h |-> h2,
         mp |-> [mp EXCEPT !.buckets = [i \in 0..(mp.bucket_count - 1) |-> Null],
                           !.element_count = 0]]

\* faulty variant: only the head of the chain is unlinked
ChainUnlinkHeadOnly(h, mp, idx, pred, cur, node) ==
    IF cur = node
    THEN [h |-> h, mp |-> [mp EXCEPT !.buckets[idx] = h[node].next_in_bucket]]
    ELSE [h |-> h, mp |-> mp]

\* the bucket_ptr walk of erase: unlink node from the chain starting at cur,
\* whose predecessor in the chain is pred (Null: cur is buckets[idx])
RECURSIVE ChainUnlink(_, _, _, _, _, _)
ChainUnlink(h, mp, idx, pred, cur, node) ==
    IF cur = Null THEN [h |-> h, mp |-> mp]
    ELSE IF cur = node
    THEN IF pred = Null
         THEN [h |-> h, mp |-> [mp EXCEPT !.buckets[idx] = h[node].next_in_bucket]]
         ELSE [h |-> [h EXCEPT ![pred].next_in_bucket = h[node].next_in_bucket],
               mp |-> mp]
    ELSE ChainUnlink(h, mp, idx, cur, h[cur].next_in_bucket, node)

\* faulty variant: the owner of the position is not compared
erase_throws_any_owner(mp, m, pos) ==
    pos.node = mp.tail \/ pos.node = mp.head

\* the throw condition of erase
erase_throws(mp, m, pos) ==
    pos.map # m \/ pos.node = mp.tail \/ pos.node = mp.head

size_dec(x) == IF x = 0 THEN SIZE_MAX ELSE x - 1

\* erase past the throw: [h, mp]
erase(h, mp, node) ==
    LET idx == get_bucket_index(mp, h[node].key)
        c == ChainUnlink(h, mp, idx, Null, mp.buckets[idx], node)
        h1 == remove_from_order_list(c.h, node)
    IN  [h |-> Delete(h1, node),
         mp |-> [c.mp EXCEPT !.element_count = size_dec(@)]]

\* operator++ (all four forms): throws at tail, else node = node->next
inc_throws(mp, pos) == pos.node = mp.tail
\* faulty variant: ++ follows prev
inc_backwards(h, pos) == h[pos.node].prev
inc(h, pos) == h[pos.node].next

\* faulty variant: -- compares with head instead of head->next
dec_throws_at_head(h, mp, pos) == pos.node = mp.head

\* operator-- (all four forms): throws at head->next, else node = node->prev
dec_throws(h, mp, pos) == pos.node = h[mp.head].next
dec(h, pos) == h[pos.node].prev

---------------------------------------------------------------------------
(* Observers used by the properties *)

\* the node ids from node up to (not including) stop, following next
RECURSIVE WalkNodes(_, _, _, _)
WalkNodes(h, node, stop, fuel) ==
    IF node = stop \/ node = Null \/ fuel = 0 THEN <<>>
    ELSE <<node>> \o WalkNodes(h, h[node].next, stop, fuel - 1)

\* begin() .. end() by operator++
Walk(h, mp) == WalkNodes(h, h[mp.head].next, mp.tail, MaxNodes)

\* the nodes of the chain starting at node
RECURSIVE ChainNodes(_, _, _)
ChainNodes(h, node, fuel) ==
    IF node = Null \/ fuel = 0 THEN {}
    ELSE {node} \cup ChainNodes(h, h[node].next_in_bucket, fuel - 1)

KeysOf(h, s) == [i \in 1..Len(s) |-> h[s[i]].key]
ValsOf(h, s) == [i \in 1..Len(s) |-> h[s[i]].val]

---------------------------------------------------------------------------
(* Initial states.  A run starts after a set-up of the kind a test driver   *)
(* performs: container 1 is default-constructed and filled by               *)
(* insert(PrefillKeys[1]), ..., insert(PrefillKeys[n]); container 2 is      *)
(* either not yet constructed or default-constructed; the cursor is either  *)
(* default-constructed or the result of it = find(CursorKey) on container 1.*)

\* linked_hashmap(): element_count(0), init_sentinels, init_buckets(16)
construct(h) ==
    LET s == init_sentinels(h, [DeadMap EXCEPT !.alive = TRUE])
    IN  [h |-> s.h, mp |-> init_buckets(s.mp, INITIAL_BUCKET_COUNT)]

PrefillValue(k) == k % 2

\* insert(PrefillKeys[i]), ..., insert(PrefillKeys[n]) applied to st = [h, mp]
RECURSIVE Fill(_, _, _)
Fill(st, i, n) ==
    IF i > n \/ FreeIds(st.h) = {} THEN st
    ELSE LET r == insert(st.h, st.mp, PrefillKeys[i], PrefillValue(PrefillKeys[i]))
         IN  Fill([h |-> r.h, mp |-> r.mp], i + 1, n)

Prefilled(n) == Fill(construct([i \in NodeIds |-> FreeCell]), 1, n)

NoCall == [op |-> "none", map |-> 0, key |-> 0, val |-> 0, exc |-> "none",
           rnode |-> Null, rval |-> 0]

DefaultCursor == [node |-> Null, map |-> 0, stale |-> FALSE]

SetUp(n, second, cursor) ==
    LET p == Prefilled(n)
        q == IF second THEN construct(p.h) ELSE [h |-> p.h, mp |-> DeadMap]
    IN  /\ heap = q.h
        /\ maps = [m \in Maps |-> IF m = 1 THEN p.mp ELSE q.mp]
        /\ it = IF cursor
                THEN [node |-> find(q.h, p.mp, CursorKey), map |-> 1, stale |-> FALSE]
                ELSE DefaultCursor
        /\ last = NoCall
        /\ order = [m \in Maps |-> IF m = 1 THEN SubSeq(PrefillKeys, 1, n) ELSE <<>>]
        /\ ub = FALSE
        /\ nops = 0

Init == \E n \in PrefillSizes, second \in BOOLEAN, cursor \in BOOLEAN :
            SetUp(n, second, cursor)

---------------------------------------------------------------------------
(* Calls *)

CanCall(m) == ~ub /\ nops < MaxOps /\ maps[m].alive

Call(op, m, k, v, exc, rnode, rval) ==
    [op |-> op, map |-> m, key |-> k, val |-> v, exc |-> exc,
     rnode |-> rnode, rval |-> rval]

\* ghost: a cursor is stale once the node it points to has been deleted
MarkStale(c, hBefore, hAfter) ==
    [c EXCEPT !.stale = @ \/ (c.node # Null /\ hBefore[c.node].alloc
                                /\ ~hAfter[c.node].alloc)]

Remove(s, k) == SelectSeq(s, LAMBDA x : x # k)

Insert(m, k, v) ==
    /\ CanCall(m)
    /\ FreeIds(heap) # {}
    /\ LET r == insert(heap, maps[m], k, v)
       IN  /\ heap' = r.h
           /\ maps' = [maps EXCEPT ![m] = r.mp]
           /\ last' = Call("insert", m, k, v, "none", r.node, IF r.flag THEN 1 ELSE 0)
           /\ order' = IF r.flag THEN [order EXCEPT ![m] = Append(@, k)] ELSE order
    /\ nops' = nops + 1
    /\ UNCHANGED <<it, ub>>

Subscript(m, k) ==
    /\ CanCall(m)
    /\ FreeIds(heap) # {}
    /\ LET r == subscript(heap, maps[m], k)
       IN  /\ heap' = r.h
           /\ maps' = [maps EXCEPT ![m] = r.mp]
           /\ last' = Call("operator[]", m, k, 0, "none", r.node, r.h[r.node].val)
           /\ order' = IF r.flag THEN [order EXCEPT ![m] = Append(@, k)] ELSE order
    /\ nops' = nops + 1
    /\ UNCHANGED <<it, ub>>

\* the value the caller stores through operator[]: one that no insertion
\* of the model stores
WriteValue == DefaultValue + 2

\* map[k] = v: operator[] and a store through the reference it returns
SubscriptAssign(m, k, v) ==
    /\ CanCall(m)
    /\ FreeIds(heap) # {}
    /\ LET r == subscript(heap, maps[m], k)
       IN  /\ heap' = [r.h EXCEPT ![r.node].val = v]
           /\ maps' = [maps EXCEPT ![m] = r.mp]
           /\ last' = Call("operator[]=", m, k, v, "none", r.node, v)
           /\ order' = IF r.flag THEN [order EXCEPT ![m] = Append(@, k)] ELSE order
    /\ nops' = nops + 1
    /\ UNCHANGED <<it, ub>>

At(m, k) ==
    /\ CanCall(m)
    /\ LET r == at(heap, maps[m], k)
       IN  last' = Call("at", m, k, 0, r.exc, r.node,
                        IF r.node # Null THEN heap[r.node].val ELSE 0)
    /\ nops' = nops + 1
    /\ UNCHANGED <<heap, maps, it, order, ub>>

ConstSubscript(m, k) ==
    /\ CanCall(m)
    /\ LET r == const_subscript(heap, maps[m], k)
       IN  last' = Call("operator[] const", m, k, 0, r.exc, r.node,
                        IF r.node # Null THEN heap[r.node].val ELSE 0)
    /\ nops' = nops + 1
    /\ UNCHANGED <<heap, maps, it, order, ub>>

Count(m, k) ==
    /\ CanCall(m)
    /\ last' = Call("count", m, k, 0, "none", Null, count(heap, maps[m], k))
    /\ nops' = nops + 1
    /\ UNCHANGED <<heap, maps, it, order, ub>>

\* it = map.find(k)
Find(m, k) ==
    /\ CanCall(m)
    /\ it' = [node |-> find(heap, maps[m], k), map |-> m, stale |-> FALSE]
    /\ last' = Call("find", m, k, 0, "none", find(heap, maps[m], k), 0)
    /\ nops' = nops + 1
    /\ UNCHANGED <<heap, maps, order, ub>>

\* it = map.begin()  (cbegin() is the same code)
Begin(m) ==
    /\ CanCall(m)
    /\ it' = [node |-> begin(heap, maps[m]), map |-> m, stale |-> FALSE]
    /\ last' = Call("begin", m, 0, 0, "none", begin(heap, maps[m]), 0)
    /\ nops' = nops + 1
    /\ UNCHANGED <<heap, maps, order, ub>>

\* it = map.end()  (cend() is the same code)
End(m) ==
    /\ CanCall(m)
    /\ it' = [node |-> end(maps[m]), map |-> m, stale |-> FALSE]
    /\ last' = Call("end", m, 0, 0, "none", end(maps[m]), 0)
    /\ nops' = nops + 1
    /\ UNCHANGED <<heap, maps, order, ub>>

Clear(m) ==
    /\ CanCall(m)
    /\ LET r == clear(heap, maps[m])
       IN  /\ heap' = r.h
           /\ maps' = [maps EXCEPT ![m] = r.mp]
           /\ it' = MarkStale(it, heap, r.h)
    /\ last' = Call("clear", m, 0, 0, "none", Null, 0)
    /\ order' = [order EXCEPT ![m] = <<>>]
    /\ nops' = nops + 1
    /\ UNCHANGED ub

\* map.erase(it)
Erase(m) ==
    /\ CanCall(m)
    /\ nops' = nops + 1
    /\ IF erase_throws(maps[m], m, it)
       THEN /\ last' = Call("erase", m, 0, 0, "invalid_iterator", it.node, 0)
            /\ UNCHANGED <<heap, maps, it, order, ub>>
       ELSE IF it.node # Null /\ heap[it.node].alloc /\ heap[it.node].data
       THEN \* a live Node object is at that address
            LET r == erase(heap, maps[m], it.node)
            IN  /\ heap' = r.h
                /\ maps' = [maps EXCEPT ![m] = r.mp]
                /\ last' = Call("erase", m, heap[it.node].key, 0, "none", it.node, 0)
                /\ ub' = it.stale
                /\ order' = IF it.stale THEN order
                            ELSE [order EXCEPT ![m] = Remove(@, heap[it.node].key)]
                /\ it' = MarkStale(it, heap, r.h)
       ELSE \* node->data read from a deleted Node, or null: undefined
            /\ ub' = TRUE
            /\ \E exc \in {"crash", "none"} :
                 /\ last' = Call("erase", m, 0, 0, exc, it.node, 0)
                 /\ maps' = IF exc = "none"
                            THEN [maps EXCEPT ![m].element_count = size_dec(@)]
                            ELSE maps
            /\ UNCHANGED <<heap, it, order>>

\* map.erase(map.find(k)): the position is a temporary
EraseFound(m, k) ==
    /\ CanCall(m)
    /\ nops' = nops + 1
    /\ LET pos == [node |-> find(heap, maps[m], k), map |-> m, stale |-> FALSE]
       IN  IF erase_throws(maps[m], m, pos)
           THEN /\ last' = Call("erase(find)", m, k, 0, "invalid_iterator", pos.node, 0)
                /\ UNCHANGED <<heap, maps, it, order>>
           ELSE LET r == erase(heap, maps[m], pos.node)
                IN  /\ heap' = r.h
                    /\ maps' = [maps EXCEPT ![m] = r.mp]
                    /\ last' = Call("erase(find)", m, k, 0, "none", pos.node, 0)
                    /\ order' = [order EXCEPT ![m] = Remove(@, k)]
                    /\ it' = MarkStale(it, heap, r.h)
    /\ UNCHANGED ub

\* operator== and operator!= of iterator and const_iterator (the four
\* overloads of each have the same body)
\* faulty variant: only the owners are compared
iter_eq_map_only(a, b) == a.map = b.map
iter_eq(a, b) == a.node = b.node /\ a.map = b.map
iter_neq(a, b) == ~iter_eq(a, b)

\* it == map.find(k) and it != map.find(k): rval records the result of ==,
\* val the result of !=
Compare(m, k) ==
    /\ CanCall(m)
    /\ nops' = nops + 1
    /\ LET rhs == [node |-> find(heap, maps[m], k), map |-> m, stale |-> FALSE]
       IN  last' = Call("==", m, k, IF iter_neq(it, rhs) THEN 1 ELSE 0, "none",
                        rhs.node, IF iter_eq(it, rhs) THEN 1 ELSE 0)
    /\ UNCHANGED <<heap, maps, it, order, ub>>

IncForms == {"it++", "++it", "cit++", "++cit"}
DecForms == {"it--", "--it", "cit--", "--cit"}
Postfix == {"it++", "cit++", "it--", "cit--"}

\* the cursor's owner is a constructed container
Attached(c) == c.map # 0 /\ maps[c.map].alive

\* A cursor operation that reads through a dangling pointer: undefined.
\* With map == nullptr the read of map->tail faults; otherwise the read
\* returns whatever the deleted object's storage holds now, so the call may
\* fault, throw, or return with the cursor on some other address.
Dangling(op) ==
    /\ ub' = TRUE
    /\ \E exc \in (IF it.map = 0 THEN {"crash"}
                   ELSE {"crash", "invalid_iterator", "none"}) :
         /\ last' = Call(op, it.map, 0, 0, exc, Null, 0)
         /\ IF exc = "none"
            THEN \E n \in {Null, it.node} : it' = [it EXCEPT !.node = n]
            ELSE it' = it
    /\ UNCHANGED <<heap, maps, order>>

Step(op, throws, target) ==
    IF throws
    THEN /\ last' = Call(op, it.map, 0, 0, "invalid_iterator", Null, 0)
         /\ UNCHANGED <<heap, maps, it, order, ub>>
    ELSE /\ it' = [it EXCEPT !.node = target]
         /\ last' = Call(op, it.map, 0, 0, "none",
                         IF op \in Postfix THEN it.node ELSE target, 0)
         /\ ub' = it.stale
         /\ UNCHANGED <<heap, maps, order>>

\* it++, ++it on an iterator or a const_iterator
Advance(form) ==
    /\ ~ub /\ nops < MaxOps
    /\ nops' = nops + 1
    /\ IF Attached(it) /\ (inc_throws(maps[it.map], it) \/ heap[it.node].alloc)
       THEN Step(form, inc_throws(maps[it.map], it), inc(heap, it))
       ELSE Dangling(form)

\* it--, --it on an iterator or a const_iterator
Retreat(form) ==
    /\ ~ub /\ nops < MaxOps
    /\ nops' = nops + 1
    /\ IF Attached(it) /\ (dec_throws(heap, maps[it.map], it) \/ heap[it.node].alloc)
       THEN Step(form, dec_throws(heap, maps[it.map], it), dec(heap, it))
       ELSE Dangling(form)

\* linked_hashmap m;
Construct(m) ==
    /\ ~ub /\ nops < MaxOps /\ ~maps[m].alive
    /\ Cardinality(FreeIds(heap)) >= 2
    /\ LET r == construct(heap)
       IN  /\ heap' = r.h
           /\ maps' = [maps EXCEPT ![m] = r.mp]
    /\ last' = Call("linked_hashmap()", m, 0, 0, "none", Null, 0)
    /\ order' = [order EXCEPT ![m] = <<>>]
    /\ nops' = nops + 1
    /\ UNCHANGED <<it, ub>>

\* linked_hashmap m(o);
CopyConstruct(m, o) ==
    /\ ~ub /\ nops < MaxOps /\ ~maps[m].alive /\ maps[o].alive
    /\ Cardinality(FreeIds(heap)) >= 2 + maps[o].element_count
    /\ LET r == deep_copy(heap, [DeadMap EXCEPT !.alive = TRUE], maps[o])
       IN  /\ heap' = r.h
           /\ maps' = [maps EXCEPT ![m] = r.mp]
    /\ last' = Call("linked_hashmap(const&)", m, o, 0, "none", Null, 0)
    /\ order' = [order EXCEPT ![m] = order[o]]
    /\ nops' = nops + 1
    /\ UNCHANGED <<it, ub>>

\* m = o;
Assign(m, o) ==
    /\ CanCall(m) /\ maps[o].alive
    /\ nops' = nops + 1
    /\ last' = Call("operator=", m, o, 0, "none", Null, 0)
    /\ IF m = o
       THEN UNCHANGED <<heap, maps, it, order, ub>>
       ELSE LET h1 == clear_all(heap, maps[m])
            IN  /\ Cardinality(FreeIds(h1)) >= 2 + maps[o].element_count
                /\ LET r == deep_copy(h1, delete_buckets(maps[m]), maps[o])
                   IN  /\ heap' = r.h
                       /\ maps' = [maps EXCEPT ![m] = r.mp]
                /\ it' = MarkStale(it, heap, h1)
                /\ order' = [order EXCEPT ![m] = order[o]]
                /\ UNCHANGED ub

\* ~linked_hashmap()
Destroy(m) ==
    /\ CanCall(m)
    /\ heap' = clear_all(heap, maps[m])
    /\ maps' = [maps EXCEPT ![m] =
                   [DeadMap EXCEPT !.arrays = delete_buckets(maps[m]).arrays]]
    /\ it' = MarkStale(it, heap, heap')
    /\ last' = Call("~linked_hashmap", m, 0, 0, "none", Null, 0)
    /\ order' = [order EXCEPT ![m] = <<>>]
    /\ nops' = nops + 1
    /\ UNCHANGED ub

Next ==
    \/ \E m \in Maps, k \in InputKeys, v \in Values : Insert(m, k, v)
    \/ \E m \in Maps, k \in InputKeys : Subscript(m, k)
    \/ \E m \in Maps, k \in InputKeys : SubscriptAssign(m, k, WriteValue)
    \/ \E m \in Maps, k \in InputKeys : At(m, k)
    \/ \E m \in Maps, k \in InputKeys : ConstSubscript(m, k)
    \/ \E m \in Maps, k \in InputKeys : Count(m, k)
    \/ \E m \in Maps, k \in InputKeys : Find(m, k)
    \/ \E m \in Maps : Begin(m)
    \/ \E m \in Maps : End(m)
    \/ \E m \in Maps : Clear(m)
    \/ \E m \in Maps : Erase(m)
    \/ \E m \in Maps, k \in InputKeys : EraseFound(m, k)
    \/ \E m \in Maps, k \in InputKeys : Compare(m, k)
    \/ \E f \in IncForms : Advance(f)
    \/ \E f \in DecForms : Retreat(f)
    \/ \E m \in Maps : Construct(m)
    \/ \E m \in Maps, o \in Maps : CopyConstruct(m, o)
    \/ \E m \in Maps, o \in Maps : Assign(m, o)
    \/ \E m \in Maps : Destroy(m)

Spec == Init /\ [][Next]_vars

---------------------------------------------------------------------------
(* Vocabulary of the properties *)

Alive == {m \in Maps : maps[m].alive}
size(mp) == mp.element_count
Range(s) == {s[i] : i \in 1..Len(s)}
NoDuplicates(s) == \A i, j \in 1..Len(s) : s[i] = s[j] => i = j
ProbeKeys == InputKeys \cup Range(PrefillKeys)

\* the step just taken was a call of op (every call increments nops)
Called(ops) == nops' = nops + 1 /\ last'.op \in ops

\* the entry for key k found by iterating begin()..end(), Null if none
Entry(h, mp, k) ==
    LET w == Walk(h, mp)
    IN  IF \E i \in 1..Len(w) : h[w[i]].key = k
        THEN w[CHOOSE i \in 1..Len(w) : h[w[i]].key = k]
        ELSE Null

\* the cursor references a live entry of container m
OnLiveEntry(c, m) ==
    /\ c.map = m /\ ~c.stale /\ c.node \in Range(Walk(heap, maps[m]))

---------------------------------------------------------------------------
\* C1: in every state reached without undefined behaviour, advancing from
\* begin() reaches end() after exactly size() steps and visits the live
\* keys, each once, in the order of the successful insertions that created
\* the current entries (the ghost sequence order: lookups and failed
\* insertions leave it alone, erase removes a key, a later insertion of the
\* same key appends it again at the end).
C1_IterationOrder ==
    ~ub => \A m \in Alive :
        LET w == Walk(heap, maps[m])
        IN  /\ Len(w) = size(maps[m])
            /\ (IF w = <<>> THEN begin(heap, maps[m])
                ELSE heap[w[Len(w)]].next) = end(maps[m])
            /\ KeysOf(heap, w) = order[m]
            /\ NoDuplicates(KeysOf(heap, w))

\* key 33 was erased from <<1, 33, 2>> and inserted again: it is now last
C1_Witness ==
    /\ ~ub /\ last.op = "insert" /\ last.rval = 1 /\ last.key = 33
    /\ last.map = 1
    /\ KeysOf(heap, Walk(heap, maps[1])) = <<1, 2, 33>>

\* C2: insert(k, v) with k already present returns (the existing entry,
\* false) and changes no node, no chain, no bucket array, no count: in
\* particular no rehash, even at the load-factor threshold.
C2_DuplicateInsert ==
    [][(Called({"insert"}) /\ Entry(heap, maps[last'.map], last'.key) # Null)
        => /\ last'.rval = 0
           /\ last'.rnode = Entry(heap, maps[last'.map], last'.key)
           /\ last'.exc = "none"
           /\ heap' = heap
           /\ maps' = maps]_vars

\* a failed insertion into a container holding 12 entries in 16 buckets
C2_Witness ==
    /\ last.op = "insert" /\ last.rval = 0
    /\ maps[last.map].element_count = 12 /\ maps[last.map].bucket_count = 16

\* C3 as claimed: at(k) right after insert(k, v) returns v
C3_AtAfterInsert_Claimed ==
    last.op = "insert" =>
        LET r == at(heap, maps[last.map], last.key)
        IN  r.exc = "none" /\ heap[r.node].val = last.val

\* C3 amended: at(k) right after insert(k, v) returns v when the insertion
\* took place, and the value k already had when it did not.
C3_AtAfterInsert ==
    [][Called({"insert"}) =>
        LET r == at(heap', maps'[last'.map], last'.key)
            old == Entry(heap, maps[last'.map], last'.key)
        IN  /\ r.exc = "none"
            /\ heap'[r.node].val = IF old = Null THEN last'.val ELSE heap[old].val
            /\ (last'.rval = 1) = (old = Null)]_vars

\* an insertion that took place after a rehash, and at() finds the key
C3_Witness ==
    /\ last.op = "insert" /\ last.rval = 1 /\ last.key = 17
    /\ maps[last.map].bucket_count = 32
    /\ at(heap, maps[last.map], 17).exc = "none"

\* C4: erase(pos) with pos on a live entry of this container removes exactly
\* that entry: count(key) = 0 and at(key) throws afterwards, size() is one
\* less, bucket_count is the same, the other entries keep their values and
\* their order, and the former neighbours are linked to each other.
C4_Erase ==
    [][(Called({"erase"}) /\ OnLiveEntry(it, last'.map))
        => LET m == last'.map
               k == heap[it.node].key
               w == Walk(heap, maps[m])
               w2 == Walk(heap', maps'[m])
           IN  /\ last'.exc = "none"
               /\ count(heap', maps'[m], k) = 0
               /\ at(heap', maps'[m], k).exc = "index_out_of_bound"
               /\ size(maps'[m]) = size(maps[m]) - 1
               /\ maps'[m].bucket_count = maps[m].bucket_count
               /\ \A i \in DOMAIN maps'[m].buckets :
                      it.node \notin ChainNodes(heap', maps'[m].buckets[i], MaxNodes)
               /\ w2 = SelectSeq(w, LAMBDA n : n # it.node)
               /\ KeysOf(heap', w2) = KeysOf(heap, w2)
               /\ ValsOf(heap', w2) = ValsOf(heap, w2)
               /\ heap'[heap[it.node].prev].next = heap[it.node].next
               /\ heap'[heap[it.node].next].prev = heap[it.node].prev
               /\ \A j \in Alive \ {m} : maps'[j] = maps[j]]_vars

\* the middle entry of <<1, 33, 2>> was erased
C4_Witness ==
    /\ ~ub /\ last.op = "erase" /\ last.exc = "none" /\ last.key = 33
    /\ last.map = 1
    /\ KeysOf(heap, Walk(heap, maps[1])) = <<1, 2>>

LoadOk(mp) == size(mp) * LoadFactorDen <= mp.bucket_count * LoadFactorNum

\* C6: after a call that inserted new entries (insert, operator[], copy
\* construction, copy assignment) size() <= bucket_count * 0.75; insert and
\* operator[] double bucket_count exactly when size() + 1 exceeded
\* bucket_count * 0.75 before the entry was added, and the new entry is in
\* the chain at hash(key) mod the new bucket_count.
C6_LoadFactor ==
    [][Called({"insert", "operator[]", "linked_hashmap(const&)", "operator="})
        => LET m == last'.map
               grows == (size(maps[m]) + 1) * LoadFactorDen
                            > maps[m].bucket_count * LoadFactorNum
           IN  /\ LoadOk(maps'[m])
               /\ (last'.op \in {"insert", "operator[]"}
                     /\ Entry(heap, maps[m], last'.key) = Null)
                  => /\ size(maps'[m]) = size(maps[m]) + 1
                     /\ maps'[m].bucket_count =
                          IF grows THEN 2 * maps[m].bucket_count
                          ELSE maps[m].bucket_count
                     /\ last'.rnode \in ChainNodes(heap',
                          maps'[m].buckets[Hash(last'.key) % maps'[m].bucket_count],
                          MaxNodes)
                     /\ heap'[last'.rnode].key = last'.key]_vars

\* the 13th entry went into a table that had 16 buckets
C6_Witness ==
    /\ last.op = "insert" /\ last.rval = 1
    /\ maps[last.map].element_count = 13 /\ maps[last.map].bucket_count = 32

\* C7 as claimed: no operation on a container leaves its bucket_count
\* smaller than it was.
C7_NeverShrinks_Claimed ==
    [][\A m \in Maps : (maps[m].alive /\ maps'[m].alive)
        => maps'[m].bucket_count >= maps[m].bucket_count]_vars

\* C7 amended: insert, operator[], erase, clear and the lookups never make
\* bucket_count smaller; copy assignment from another container sets it to
\* the source's bucket_count, which may be smaller.
C7_NeverShrinks ==
    [][\A m \in Maps : (maps[m].alive /\ maps'[m].alive)
        => IF Called({"operator="}) /\ last'.map = m /\ last'.key # m
           THEN maps'[m].bucket_count = maps[last'.key].bucket_count
           ELSE maps'[m].bucket_count >= maps[m].bucket_count]_vars

\* a table that grew to 32 buckets and then lost entries
C7_Witness ==
    /\ ~ub /\ last.op \in {"erase", "clear"} /\ last.exc = "none"
    /\ maps[last.map].bucket_count = 32
    /\ maps[last.map].element_count < 13

\* at() and the const operator[] on (h, mp) agree with iteration
AtAgrees(h, mp) ==
    LET w == Walk(h, mp)
    IN  \A k \in ProbeKeys :
          LET hit == {i \in 1..Len(w) : h[w[i]].key = k}
              e == IF hit = {} THEN Null ELSE w[CHOOSE i \in hit : TRUE]
              r == at(h, mp, k)
              c == const_subscript(h, mp, k)
          IN  /\ r.exc = (IF e = Null THEN "index_out_of_bound" ELSE "none")
              /\ r.node = e
              /\ c = r

\* C8: at(key) and the const operator[] throw index_out_of_bound exactly
\* when key is absent and otherwise return the stored value; such a call
\* changes nothing, in particular a failed one creates no entry; insert and
\* the mutable operator[] never throw.
C8_KeyNotFound ==
    [][/\ (~ub /\ nops = 0)
          => \A m \in Maps : maps[m].alive => AtAgrees(heap, maps[m])
       /\ (~ub' /\ (heap' # heap \/ maps' # maps))
          => \A m \in Maps : maps'[m].alive => AtAgrees(heap', maps'[m])
       /\ Called({"at", "operator[] const"})
          => LET e == Entry(heap, maps[last'.map], last'.key)
             IN  /\ heap' = heap
                 /\ maps' = maps
                 /\ last'.exc = (IF e = Null THEN "index_out_of_bound" ELSE "none")
                 /\ e # Null => last'.rval = heap[e].val
       /\ Called({"insert", "operator[]"}) => last'.exc = "none"]_vars

\* at() threw for a key that was erased
C8_Witness ==
    /\ last.op = "at" /\ last.exc = "index_out_of_bound" /\ last.key = 33
    /\ 33 \notin Range(order[last.map])
    /\ maps[last.map].element_count = 2

\* C9: map[key] with key absent creates one entry holding T(), last in
\* iteration order, size() one more, bucket_count doubled exactly when the
\* load-factor check asks for it; with key present it returns the stored
\* value and changes nothing.
C9_Subscript ==
    [][Called({"operator[]"})
        => LET m == last'.map
               k == last'.key
               old == Entry(heap, maps[m], k)
               w == Walk(heap, maps[m])
               w2 == Walk(heap', maps'[m])
               grows == (size(maps[m]) + 1) * LoadFactorDen
                            > maps[m].bucket_count * LoadFactorNum
           IN  IF old = Null
               THEN /\ w2 = Append(w, last'.rnode)
                    /\ KeysOf(heap', w2) = Append(KeysOf(heap, w), k)
                    /\ ValsOf(heap', w2) = Append(ValsOf(heap, w), DefaultValue)
                    /\ last'.rval = DefaultValue
                    /\ size(maps'[m]) = size(maps[m]) + 1
                    /\ maps'[m].bucket_count =
                         IF grows THEN 2 * maps[m].bucket_count
                         ELSE maps[m].bucket_count
               ELSE /\ last'.rnode = old
                    /\ last'.rval = heap[old].val
                    /\ heap' = heap
                    /\ maps' = maps]_vars

\* map[17] created the 13th entry, after a rehash
C9_Witness ==
    /\ last.op = "operator[]" /\ last.key = 17 /\ last.rval = DefaultValue
    /\ maps[last.map].element_count = 13 /\ maps[last.map].bucket_count = 32

BeginIsEndWhenEmpty(h, ms) ==
    \A m \in Maps : (ms[m].alive /\ size(ms[m]) = 0) => begin(h, ms[m]) = end(ms[m])

\* C10: ++ on a cursor of a constructed container that references a live
\* entry or end() throws invalid_iterator exactly when the cursor is at
\* end(), and then leaves the cursor alone; otherwise it moves to the next
\* entry in iteration order, or to end() from the last entry.  On an empty
\* container begin() = end().
C10_Advance ==
    [][/\ (Called(IncForms) /\ Attached(it) /\ ~it.stale)
          => LET mp == maps[it.map]
                 w == Walk(heap, mp)
             IN  IF it.node = end(mp)
                 THEN last'.exc = "invalid_iterator" /\ it' = it
                 ELSE /\ last'.exc = "none"
                      /\ it'.map = it.map
                      /\ \E i \in 1..Len(w) :
                           /\ w[i] = it.node
                           /\ it'.node = IF i = Len(w) THEN end(mp) ELSE w[i + 1]
       /\ ~ub => BeginIsEndWhenEmpty(heap, maps)
       /\ ~ub' => BeginIsEndWhenEmpty(heap', maps')]_vars

\* ++ moved the cursor from the last entry to end()
C10_Witness ==
    /\ ~ub /\ last.op \in IncForms /\ last.exc = "none"
    /\ Attached(it) /\ it.node = end(maps[it.map])

\* C11: -- (prefix or postfix, iterator or const_iterator) on a cursor of a
\* constructed container that references a live entry or end() throws
\* invalid_iterator exactly when the cursor is at begin() as it is at the
\* time of the call (end() when the container is empty), and then leaves
\* the cursor alone; otherwise it moves to the previous entry in iteration
\* order, so from end() to the last entry.  The postfix forms return the
\* old position, the prefix forms the new one.
C11_Retreat ==
    [][(Called(DecForms) /\ Attached(it) /\ ~it.stale)
        => LET mp == maps[it.map]
               w == Walk(heap, mp)
           IN  /\ heap' = heap /\ maps' = maps
               /\ IF it.node = begin(heap, mp)
                  THEN last'.exc = "invalid_iterator" /\ it' = it
                  ELSE /\ last'.exc = "none"
                       /\ it'.map = it.map
                       /\ it'.node \in Range(w)
                       /\ IF it.node = end(mp)
                          THEN it'.node = w[Len(w)]
                          ELSE \E i \in 2..Len(w) :
                                 w[i] = it.node /\ it'.node = w[i - 1]
                       /\ last'.rnode = IF last'.op \in Postfix THEN it.node
                                        ELSE it'.node]_vars

\* the cursor was on the second entry of <<1, 33, 2>>; the first entry was
\* erased and -- then threw
C11_Witness ==
    /\ ~ub /\ last.op \in DecForms /\ last.exc = "invalid_iterator"
    /\ Attached(it) /\ ~it.stale /\ it.map = 1
    /\ order[1] = <<33, 2>>
    /\ heap[it.node].data /\ heap[it.node].key = 33

\* the cursor references a live entry or end() of container m
OnEntryOrEnd(c, m) ==
    /\ c.map = m /\ ~c.stale
    /\ (c.node = end(maps[m]) \/ c.node \in Range(Walk(heap, maps[m])))

\* C12: an insertion (insert or operator[]) that rehashes changes only the
\* bucket array, bucket_count and the chain links: head and tail are the
\* same nodes, the entries iterate in the same order with the same keys
\* and values, followed by the new entry; every position on an entry or on
\* end() still denotes the same node, find(key) returns that node (end()
\* stays end()), every entry is in the chain of its new bucket, and the
\* prev/next links are those of before, with the new entry between the
\* former last entry and end().
C12_RehashKeepsCursors ==
    [][(Called({"insert", "operator[]"})
          /\ maps'[last'.map].bucket_count # maps[last'.map].bucket_count)
        => LET m == last'.map
               mp == maps[m]
               mq == maps'[m]
               w == Walk(heap, mp)
               new == last'.rnode
               lastOld == IF w = <<>> THEN mp.head ELSE w[Len(w)]
           IN  /\ mq.bucket_count = 2 * mp.bucket_count
               /\ mq.head = mp.head /\ mq.tail = mp.tail
               /\ size(mq) = size(mp) + 1
               /\ Walk(heap', mq) = Append(w, new)
               /\ KeysOf(heap', w) = KeysOf(heap, w)
               /\ ValsOf(heap', w) = ValsOf(heap, w)
               /\ heap'[new].key = last'.key
               /\ \A i \in 1..Len(w) :
                    LET c == [node |-> w[i], map |-> m, stale |-> FALSE]
                        f == [node |-> find(heap', mq, heap[w[i]].key), map |-> m,
                              stale |-> FALSE]
                    IN  /\ iter_eq(c, f)
                        /\ w[i] \in ChainNodes(heap',
                             mq.buckets[Hash(heap[w[i]].key) % mq.bucket_count],
                             MaxNodes)
                        /\ dec(heap', c) = dec(heap, c)
                        /\ inc(heap', c) = IF i = Len(w) THEN new ELSE inc(heap, c)
               /\ heap'[new].prev = lastOld /\ heap'[new].next = mp.tail
               /\ heap'[mp.tail].prev = new
               /\ OnEntryOrEnd(it, m)
                  => /\ it' = it
                     /\ it.node = end(mp) => iter_eq(it', [node |-> end(mq), map |-> m])
               /\ \A j \in Alive \ {m} : maps'[j] = maps[j]]_vars

\* the 13th insertion rehashed while the cursor was on key 33; key 49 moved
\* from bucket 1 to bucket 17, where the new key 17 joined it
C12_Witness ==
    /\ ~ub /\ last.op = "insert" /\ last.rval = 1 /\ last.key = 17
    /\ last.map = 1 /\ maps[1].bucket_count = 32
    /\ OnEntryOrEnd(it, 1) /\ heap[it.node].key = 33
    /\ find(heap, maps[1], 33) = it.node
    /\ ChainNodes(heap, maps[1].buckets[17], MaxNodes)
         = {find(heap, maps[1], 17), find(heap, maps[1], 49)}

\* the (key, value) pairs of a container in iteration order
Pairs(h, mp) ==
    LET w == Walk(h, mp)
    IN  [i \in 1..Len(w) |-> <<h[w[i]].key, h[w[i]].val>>]

\* the sentinels and entries of a container
NodesOf(h, mp) == {mp.head, mp.tail} \cup Range(Walk(h, mp))

\* C13: after m(o) and after m = o with m and o different objects, m
\* iterates over the same (key, value) pairs in the same order as o, with
\* the same size() and bucket_count: nothing of what m held before the
\* assignment is left; o, its nodes and its bucket array are unchanged.
\* m = m changes nothing.
C13_Copy ==
    [][Called({"linked_hashmap(const&)", "operator="})
        => LET m == last'.map
               o == last'.key
           IN  IF m = o
               THEN heap' = heap /\ maps' = maps /\ it' = it
               ELSE /\ Pairs(heap', maps'[m]) = Pairs(heap, maps[o])
                    /\ size(maps'[m]) = size(maps[o])
                    /\ Len(Walk(heap', maps'[m])) = size(maps[o])
                    /\ maps'[m].bucket_count = maps[o].bucket_count
                    /\ maps'[m].alive
                    /\ maps'[o] = maps[o]
                    /\ \A n \in NodesOf(heap, maps[o]) : heap'[n] = heap[n]
                    /\ Pairs(heap', maps'[o]) = Pairs(heap, maps[o])]_vars

\* container 1 held <<1, 33, 2>> and was assigned from container 2, which
\* held <<17>>: more nodes were freed than the copy took
C13_Witness ==
    /\ ~ub /\ last.op = "operator=" /\ last.map = 1 /\ last.key = 2
    /\ Pairs(heap, maps[1]) = Pairs(heap, maps[2])
    /\ KeysOf(heap, Walk(heap, maps[1])) = <<17>>
    /\ Cardinality(Recycled(heap)) = 2

\* the calls that change a container's contents
MutatingOps == {"insert", "operator[]", "operator[]=", "erase", "erase(find)",
                "clear"}

\* every node in a bucket chain of mp
ChainedNodes(h, mp) ==
    UNION {ChainNodes(h, mp.buckets[i], MaxNodes) : i \in DOMAIN mp.buckets}

\* two container objects have no sentinel and no entry in common, and the
\* chains of each hold only its own entries
ShareNothing(h, ms) ==
    \A m, j \in Maps : (m # j /\ ms[m].alive /\ ms[j].alive)
        => /\ NodesOf(h, ms[m]) \cap NodesOf(h, ms[j]) = {}
           /\ ChainedNodes(h, ms[m]) \cap NodesOf(h, ms[j]) = {}

\* C14: a call of insert, operator[] (with or without a store through the
\* returned reference), erase or clear on one container that executes no
\* undefined behaviour leaves every other container as it was: same
\* object, same nodes with the same contents and links, same size() and
\* the same (key, value) pairs in the same order.  That holds in
\* particular between a copy and its source, in both directions: at all
\* times two containers have no sentinel and no entry in common.
C14_Independent ==
    [][/\ (Called(MutatingOps) /\ ~ub')
          => \A j \in Alive \ {last'.map} :
               /\ maps'[j] = maps[j]
               /\ \A n \in NodesOf(heap, maps[j]) : heap'[n] = heap[n]
               /\ size(maps'[j]) = size(maps[j])
               /\ Pairs(heap', maps'[j]) = Pairs(heap, maps[j])
       /\ (~ub /\ nops = 0) => ShareNothing(heap, maps)
       /\ (~ub' /\ (heap' # heap \/ maps' # maps)) => ShareNothing(heap', maps')]_vars

\* container 2, a copy of container 1 = <<1, 33, 2>>, lost key 33 and
\* container 1 still has its three entries
C14_Witness ==
    /\ ~ub /\ last.op = "erase(find)" /\ last.exc = "none" /\ last.map = 2
    /\ maps[1].alive
    /\ KeysOf(heap, Walk(heap, maps[2])) = <<1, 2>>
    /\ Pairs(heap, maps[1]) = <<(<<1, 1>>), (<<33, 1>>), (<<2, 0>>)>>

\* what a cursor references within its owner: the key of the entry, or -1
\* for end()
Position(h, ms, c) ==
    IF c.node = ms[c.map].tail THEN -1 ELSE h[c.node].key

\* the cursors begin(), end() and find(k) of the constructed containers
FreshCursors(h, ms) ==
    LET live == {m \in Maps : ms[m].alive}
    IN  {[node |-> begin(h, ms[m]), map |-> m] : m \in live}
        \cup {[node |-> end(ms[m]), map |-> m] : m \in live}
        \cup {[node |-> find(h, ms[m], k), map |-> m] : m \in live, k \in InputKeys}

\* == and != on the fresh cursors of (h, ms)
EqualityAgrees(h, ms) ==
    \A a, b \in FreshCursors(h, ms) :
        /\ iter_eq(a, b)
             = (a.map = b.map /\ Position(h, ms, a) = Position(h, ms, b))
        /\ iter_neq(a, b) = ~iter_eq(a, b)
        /\ a.map # b.map => (~iter_eq(a, b) /\ iter_neq(a, b))

\* C15: a == b is true exactly when a and b have the same owning container
\* and reference the same entry (the entry of the same key) or both
\* reference end(); a != b is the negation.  Cursors of different
\* containers are unequal, end() against end() and find(k) in a copy
\* against find(k) in its source included.  (All overloads of == have the
\* same body, and so have those of !=.)
C15_Equality ==
    [][/\ (Called({"=="}) /\ Attached(it) /\ ~it.stale)
          => LET rhs == [node |-> last'.rnode, map |-> last'.map]
             IN  /\ (last'.rval = 1)
                      = (it.map = rhs.map
                           /\ Position(heap, maps, it) = Position(heap, maps, rhs))
                 /\ last'.val = 1 - last'.rval
                 /\ it.map # rhs.map => last'.rval = 0
       /\ (~ub /\ nops = 0) => EqualityAgrees(heap, maps)
       /\ (~ub' /\ (heap' # heap \/ maps' # maps))
          => EqualityAgrees(heap', maps')]_vars

\* find(33) in container 1 was compared with find(33) in its copy,
\* container 2: unequal
C15_Witness ==
    /\ ~ub /\ last.op = "==" /\ last.map = 2 /\ last.key = 33
    /\ last.rval = 0 /\ last.val = 1
    /\ Attached(it) /\ ~it.stale /\ it.map = 1
    /\ heap[it.node].data /\ heap[it.node].key = 33
    /\ heap[last.rnode].data /\ heap[last.rnode].key = 33
    /\ Pairs(heap, maps[1]) = Pairs(heap, maps[2])

\* count and find on (h, mp) agree with the keys live, the set of keys
LookupAgrees(h, mp, live) ==
    LET w == Walk(h, mp)
    IN  /\ NoDuplicates(KeysOf(h, w))
        /\ Range(KeysOf(h, w)) = live
        /\ \A k \in ProbeKeys :
             LET f == find(h, mp, k)
             IN  /\ count(h, mp, k) = (IF k \in live THEN 1 ELSE 0)
                 /\ IF k \in live
                    THEN f \in Range(w) /\ h[f].key = k
                    ELSE f = end(mp)
                 /\ (f = end(mp)) = (count(h, mp, k) = 0)

\* C16: in every state reached without undefined behaviour the entries of
\* a container have pairwise different keys, and for every key k count(k)
\* is 1 if k is live (inserted and not removed since) and 0 otherwise,
\* find(k) is a position on the entry of k if k is live and end()
\* otherwise; a call of count or find throws nothing, changes nothing and
\* returns just that.
C16_Lookup ==
    [][/\ (~ub /\ nops = 0)
          => \A m \in Maps : maps[m].alive
               => LookupAgrees(heap, maps[m], Range(order[m]))
       /\ (~ub' /\ (heap' # heap \/ maps' # maps))
          => \A m \in Maps : maps'[m].alive
               => LookupAgrees(heap', maps'[m], Range(order'[m]))
       /\ Called({"count", "find"})
          => LET m == last'.map
                 k == last'.key
                 live == k \in Range(order[m])
             IN  /\ last'.exc = "none"
                 /\ heap' = heap /\ maps' = maps /\ order' = order
                 /\ last'.op = "count" => last'.rval = (IF live THEN 1 ELSE 0)
                 /\ last'.op = "find"
                    => /\ it' = [node |-> last'.rnode, map |-> m, stale |-> FALSE]
                       /\ IF live
                          THEN heap[last'.rnode].data /\ heap[last'.rnode].key = k
                          ELSE last'.rnode = end(maps[m])]_vars

\* count(33) returned 0 after key 33 was erased from <<1, 33, 2>>, whose
\* bucket 1 still holds key 1
C16_Witness ==
    /\ ~ub /\ last.op = "count" /\ last.key = 33 /\ last.rval = 0
    /\ last.map = 1 /\ order[1] = <<1, 2>>
    /\ maps[1].buckets[1] # Null
    /\ find(heap, maps[1], 33) = end(maps[1])

\* C17: clear() leaves size() = 0 and begin() = end(): head and tail, the
\* same two nodes as before, are linked to each other; every bucket is
\* empty, bucket_count is what it was, the entries the container held are
\* deallocated and other containers are untouched.  The container stays
\* usable: an insertion after clear() (as after any call) leaves exactly
\* the keys inserted since, in the order of their insertion.
C17_Clear ==
    [][/\ Called({"clear"})
          => LET m == last'.map
                 mp == maps[m]
                 mq == maps'[m]
             IN  /\ last'.exc = "none"
                 /\ size(mq) = 0
                 /\ mq.head = mp.head /\ mq.tail = mp.tail
                 /\ begin(heap', mq) = end(mq)
                 /\ heap'[mq.head].next = mq.tail /\ heap'[mq.tail].prev = mq.head
                 /\ heap'[mq.head].alloc /\ heap'[mq.tail].alloc
                 /\ mq.bucket_count = mp.bucket_count
                 /\ DOMAIN mq.buckets = 0..(mp.bucket_count - 1)
                 /\ \A i \in DOMAIN mq.buckets : mq.buckets[i] = Null
                 /\ \A n \in Range(Walk(heap, mp)) : ~heap'[n].alloc
                 /\ \A k \in ProbeKeys : count(heap', mq, k) = 0
                 /\ \A j \in Alive \ {m} :
                      maps'[j] = maps[j]
                        /\ \A n \in NodesOf(heap, maps[j]) : heap'[n] = heap[n]
       /\ (Called({"insert", "operator[]", "operator[]="}) /\ order[last'.map] = <<>>)
          => LET m == last'.map
                 w == Walk(heap', maps'[m])
             IN  /\ w = <<last'.rnode>>
                 /\ KeysOf(heap', w) = <<last'.key>>
                 /\ size(maps'[m]) = 1
                 /\ ChainedNodes(heap', maps'[m]) = {last'.rnode}]_vars

\* a table that had grown to 32 buckets for 13 entries was cleared
C17_Witness ==
    /\ ~ub /\ last.op = "clear" /\ last.map = 1
    /\ size(maps[1]) = 0 /\ maps[1].bucket_count = 32
    /\ Cardinality(Recycled(heap)) = 13
    /\ begin(heap, maps[1]) = end(maps[1])

\* the number of nodes in the chain starting at node
RECURSIVE ChainLen(_, _, _)
ChainLen(h, node, fuel) ==
    IF node = Null \/ fuel = 0 THEN 0
    ELSE 1 + ChainLen(h, h[node].next_in_bucket, fuel - 1)

\* the number of nodes in the chains of buckets i .. bucket_count - 1
RECURSIVE ChainTotal(_, _, _)
ChainTotal(h, mp, i) ==
    IF i >= mp.bucket_count THEN 0
    ELSE ChainLen(h, mp.buckets[i], MaxNodes + 1) + ChainTotal(h, mp, i + 1)

WellFormed(h, mp) ==
    LET w == Walk(h, mp)
        live == Range(w)
    IN  /\ h[mp.head].alloc /\ h[mp.tail].alloc
        /\ ~h[mp.head].data /\ ~h[mp.tail].data
        /\ DOMAIN mp.buckets = 0..(mp.bucket_count - 1)
        \* the order list: head, the entries once each, tail
        /\ NoDuplicates(w)
        /\ Len(w) = size(mp)
        /\ (IF w = <<>> THEN h[mp.head].next ELSE h[w[Len(w)]].next) = mp.tail
        /\ mp.head \notin live /\ mp.tail \notin live
        /\ \A x \in live \cup {mp.head} : h[h[x].next].prev = x
        /\ \A x \in live : h[x].alloc /\ h[x].data
        \* the chains
        /\ \A x \in live :
             {i \in DOMAIN mp.buckets : x \in ChainNodes(h, mp.buckets[i], MaxNodes)}
               = {Hash(h[x].key) % mp.bucket_count}
        /\ ChainedNodes(h, mp) \subseteq live
        /\ ChainTotal(h, mp, 0) = size(mp)

\* C18: in every state reached without undefined behaviour every entry is
\* in exactly one bucket chain, the one at index hash(key) mod
\* bucket_count, and occurs exactly once in the order list between head
\* and tail; the chains hold no sentinel and no removed entry, the chain
\* lengths add up to size(), and x.next.prev = x for head and every entry.
C18_WellFormed ==
    ~ub => \A m \in Maps : maps[m].alive => WellFormed(heap, maps[m])

\* from <<1, 33, 2>> key 1, the tail of the chain 33 -> 1 of bucket 1, was
\* erased and key 17 inserted: the chain is now 17 -> 33
C18_Witness ==
    /\ ~ub /\ last.op = "insert" /\ last.map = 1 /\ order[1] = <<33, 2, 17>>
    /\ maps[1].buckets[1] = find(heap, maps[1], 17)
    /\ heap[maps[1].buckets[1]].next_in_bucket = find(heap, maps[1], 33)
    /\ ChainLen(heap, maps[1].buckets[1], MaxNodes) = 2

\* C19 as claimed: as long as a container exists its head and tail are the
\* two nodes allocated at construction, whatever is called on it (clear
\* and copy assignment included), and a cursor that is end() of the
\* container is still end() after the call.
C19_SentinelsPermanent_Claimed ==
    [][\A m \in Maps : (~ub /\ maps[m].alive /\ maps'[m].alive)
        => /\ maps'[m].head = maps[m].head
           /\ maps'[m].tail = maps[m].tail
           /\ (it.map = m /\ ~it.stale /\ it.node = end(maps[m]) /\ it' = it)
              => /\ ~it'.stale
                 /\ iter_eq(it', [node |-> end(maps'[m]), map |-> m])]_vars

\* the Node objects allocated in h that hold a pair / hold none
AllocatedEntries(h) == {n \in NodeIds : h[n].alloc /\ h[n].data}
AllocatedSentinels(h) == {n \in NodeIds : h[n].alloc /\ ~h[n].data}

\* the calls that deallocate entries
FreeingOps == {"erase", "erase(find)", "clear", "operator=", "~linked_hashmap"}

\* no leak and nothing freed that is still in use
Accounted(h, ms) ==
    LET live == {m \in Maps : ms[m].alive}
    IN  /\ AllocatedEntries(h) = UNION {Range(Walk(h, ms[m])) : m \in live}
        /\ AllocatedSentinels(h) = UNION {{ms[m].head, ms[m].tail} : m \in live}
        /\ \A m \in live : Len(Walk(h, ms[m])) = size(ms[m])
        /\ \A n \in NodeIds : h[n].alloc
             => /\ h[n].next = Null \/ h[h[n].next].alloc
                /\ h[n].prev = Null \/ h[h[n].prev].alloc
                /\ h[n].next_in_bucket = Null \/ h[h[n].next_in_bucket].alloc
        /\ \A m \in live : \A i \in DOMAIN ms[m].buckets :
             ms[m].buckets[i] = Null \/ h[ms[m].buckets[i]].alloc
        /\ \A m \in Maps : ms[m].arrays = (IF ms[m].alive THEN 1 ELSE 0)

\* C20: in every state reached without undefined behaviour the allocated
\* entries are exactly the entries reachable in the order lists of the
\* constructed containers, the allocated sentinels are exactly their heads
\* and tails, and each constructed container owns one bucket array (no
\* leak, no freed node still linked).  A node is deallocated only by erase,
\* clear, copy assignment or destruction, and no call deletes a node that
\* is already deallocated.  After destruction no entry, no sentinel and no
\* bucket array of the container is allocated.
C20_Lifecycle ==
    [][/\ (~ub /\ nops = 0) => Accounted(heap, maps)
       /\ (~ub' /\ (heap' # heap \/ maps' # maps)) => Accounted(heap', maps')
       /\ (~ub' /\ heap' # heap)
          => \A n \in NodeIds :
               /\ (~heap[n].alloc /\ ~heap'[n].alloc) => heap'[n] = heap[n]
               /\ (heap[n].alloc /\ ~heap'[n].alloc)
                  => /\ Called(FreeingOps)
                     /\ n \in NodesOf(heap, maps[last'.map])
                     /\ heap'[n].freed > 0
       /\ Called({"~linked_hashmap"})
          => LET m == last'.map
             IN  /\ ~maps'[m].alive /\ maps'[m].arrays = 0
                 /\ \A n \in NodesOf(heap, maps[m]) : ~heap'[n].alloc
                 /\ Cardinality(AllocatedEntries(heap'))
                      = Cardinality(AllocatedEntries(heap)) - size(maps[m])
                 /\ Cardinality(AllocatedSentinels(heap'))
                      = Cardinality(AllocatedSentinels(heap)) - 2]_vars

\* container 1 = <<1, 33, 2>> was destroyed while container 2 exists: only
\* the nodes of container 2 are allocated
C20_Witness ==
    /\ ~ub /\ last.op = "~linked_hashmap" /\ last.map = 1
    /\ ~maps[1].alive /\ maps[2].alive
    /\ Cardinality(Recycled(heap)) = 5
    /\ {n \in NodeIds : heap[n].alloc} = NodesOf(heap, maps[2])

====
